---- MODULE Spec2Model ----
(***************************************************************************)
(* A model of the baseview editor adapter for NIH-plug: BaseviewState      *)
(* (src/src/lib.rs), BaseviewEditor and BaseviewEditorHandle               *)
(* (src/src/editor.rs).  The host calls the Editor trait's methods from    *)
(* several threads; every atomic load and store of the code is one step.   *)
(***************************************************************************)
EXTENDS Integers, Sequences, FiniteSets, TLC

\* ---------------------------------------------------------------- bounds
MaxWindows == 2      \* spawns per behaviour
MaxSide    == 2      \* the sizes tried are the (w, h) with w + h = MaxSide + 1
MaxFactor  == 2      \* scale factors are 1..MaxFactor (1 stands for 1.0)
MaxRef     == 1      \* platform window references are 1..MaxRef

\* the host threads calling into the editor
Threads  == {"t1", "t2"}
NoThread == "none"
Sizes    == {<<w, MaxSide + 1 - w>> : w \in 1..MaxSide}
Factors  == 1..MaxFactor
Refs     == 1..MaxRef

\* Option<f32>
None     == {}
Some(x)  == {x}
Unwrap(o) == CHOOSE x \in o : TRUE

\* nih_plug's ParentWindowHandle: the three variants the adapter matches on
ParentWindowHandle ==
    [variant : {"X11Window", "AppKitNsView", "Win32Hwnd"}, ref : Refs]

\* the null pointer / zero of XcbWindowHandle::empty() and its siblings
\* (raw_window_handle 0.5: Xcb {window, visual_id}, AppKit {ns_window,
\* ns_view}, Win32 {hwnd, hinstance})
Empty == 0

\* A translation that builds the empty handle and never copies the reference
MutRawWindowHandleNoCopy(parent) ==
    CASE parent.variant = "X11Window" ->
           [variant |-> "Xcb", window |-> Empty, visual_id |-> Empty]
      [] parent.variant = "AppKitNsView" ->
           [variant |-> "AppKit", ns_view |-> Empty, ns_window |-> Empty]
      [] parent.variant = "Win32Hwnd" ->
           [variant |-> "Win32", hwnd |-> Empty, hinstance |-> Empty]

\* ParentWindowHandleAdapter::raw_window_handle
raw_window_handle(parent) ==
    CASE parent.variant = "X11Window" ->
           [variant |-> "Xcb", window |-> parent.ref, visual_id |-> Empty]
      [] parent.variant = "AppKitNsView" ->
           [variant |-> "AppKit", ns_view |-> parent.ref, ns_window |-> Empty]
      [] parent.variant = "Win32Hwnd" ->
           [variant |-> "Win32", hwnd |-> parent.ref, hinstance |-> Empty]

\* A scale policy that ignores the stored factor
MutWindowScalePolicyAlwaysSystem(scaling) ==
    [policy |-> "SystemScaleFactor"]

\* scale: scaling_factor.map(ScaleFactor).unwrap_or(SystemScaleFactor)
WindowScalePolicy(scaling) ==
    IF scaling = None
    THEN [policy |-> "SystemScaleFactor"]
    ELSE [policy |-> "ScaleFactor", factor |-> Unwrap(scaling)]

VARIABLES
    platform,        \* target_os the crate was compiled for
    size,            \* BaseviewState.size   (AtomicCell<(u32, u32)>)
    open,            \* BaseviewState.open   (AtomicBool)
    scaling_factor,  \* BaseviewEditor.scaling_factor (AtomicCell<Option<f32>>)
    user_lock,       \* BaseviewEditor.user_state's RwLock: its writer, if any
    windows,         \* the native windows opened so far, in order
    handles,         \* the BaseviewEditorHandle of each window
    pc,              \* where each host thread is
    loc,             \* each host thread's locals
    last,            \* the step just taken: its operation, the value returned
    obs,             \* what a thread polling is_open() has seen
    period_sets      \* changes of scaling_factor in this closed period (0..2)

vars == <<platform, size, open, scaling_factor, user_lock,
          windows, handles, pc, loc, last, obs, period_sets>>

NoLoc == [sz |-> <<0, 0>>, sf |-> None, win |-> 0, factor |-> 0,
          parent |-> 0]
NoRet == <<>>

\* BaseviewState::from_size
from_size(width, height) == [size |-> <<width, height>>, open |-> FALSE]

\* create_baseview_editor: the initial scaling factor
InitialScalingFactor(os) == IF os = "macos" THEN None ELSE Some(1)

\* BaseviewState::size
Size == size

\* BaseviewState::is_open
IsOpen == open

Init ==
    /\ platform \in {"macos", "other"}
    /\ \E s \in Sizes :
          /\ size = from_size(s[1], s[2]).size
          /\ open = from_size(s[1], s[2]).open
    /\ scaling_factor = InitialScalingFactor(platform)
    /\ user_lock = NoThread
    /\ windows = <<>>
    /\ handles = [w \in 1..MaxWindows |-> "none"]
    /\ pc = [t \in Threads |-> "idle"]
    /\ loc = [t \in Threads |-> NoLoc]
    /\ last = [op |-> "init", ret |-> NoRet]
    /\ obs = 0
    /\ period_sets = 0

\* The host's contract: one handle outstanding at a time, so no spawn while
\* another spawn runs or while a handle is live or being dropped.
HostMaySpawn ==
    /\ \A t \in Threads : pc[t] \notin
          {"spawn_load_scale", "spawn_open", "spawn_build", "spawn_building",
           "spawn_store"}
    /\ \A w \in 1..MaxWindows : handles[w] \in {"none", "dropped"}
    /\ Len(windows) < MaxWindows

\* A closed period: the editor is closed and no spawn is in progress
ClosedPeriod ==
    /\ ~IsOpen
    /\ \A t \in Threads :
          pc[t] \notin {"spawn_load_scale", "spawn_open", "spawn_build",
                        "spawn_building", "spawn_store"}

Frame(t, label, value) ==
    last' = [op |-> label, ret |-> value]

\* ------------------------------------------------------------------ spawn
\* A spawn that sets the open flag on entry, before the window exists
MutSpawnCallOpensEarly(t, parent) ==
    /\ pc[t] = "idle"
    /\ HostMaySpawn
    /\ open' = TRUE
    /\ loc' = [loc EXCEPT ![t] = [NoLoc EXCEPT !.sz = Size, !.parent = parent]]
    /\ pc' = [pc EXCEPT ![t] = "spawn_load_scale"]
    /\ period_sets' = 0
    /\ Frame(t, "spawn_call", NoRet)
    /\ UNCHANGED <<platform, size, scaling_factor,
                   user_lock, windows, handles, obs>>

\* spawn, lines 62-70: clone build and state, load the size
SpawnCall(t, parent) ==
    /\ pc[t] = "idle"
    /\ HostMaySpawn
    /\ loc' = [loc EXCEPT ![t] = [NoLoc EXCEPT !.sz = Size, !.parent = parent]]
    /\ pc' = [pc EXCEPT ![t] = "spawn_load_scale"]
    /\ period_sets' = 0
    /\ Frame(t, "spawn_call", NoRet)
    /\ UNCHANGED <<platform, size, open, scaling_factor,
                   user_lock, windows, handles, obs>>

\* A host that does not keep to one handle at a time: it may call spawn
\* while another spawn runs or a window is open, up to MaxWindows windows.
HostSpawnsFreely ==
    Len(windows)
      + Cardinality({t \in Threads :
                        pc[t] \in {"spawn_load_scale", "spawn_open"}})
      < MaxWindows

\* spawn, lines 62-70, called by such a host
SpawnCallConcurrent(t, parent) ==
    /\ pc[t] = "idle"
    /\ HostSpawnsFreely
    /\ loc' = [loc EXCEPT ![t] = [NoLoc EXCEPT !.sz = Size, !.parent = parent]]
    /\ pc' = [pc EXCEPT ![t] = "spawn_load_scale"]
    /\ period_sets' = 0
    /\ Frame(t, "spawn_call", NoRet)
    /\ UNCHANGED <<platform, size, open, scaling_factor,
                   user_lock, windows, handles, obs>>

\* A spawn that takes the stored factor out of the cell instead of loading it
MutSpawnLoadScaleTakes(t) ==
    /\ pc[t] = "spawn_load_scale"
    /\ loc' = [loc EXCEPT ![t].sf = scaling_factor]
    /\ scaling_factor' = None
    /\ pc' = [pc EXCEPT ![t] = "spawn_open"]
    /\ Frame(t, "spawn_load_scale", NoRet)
    /\ UNCHANGED <<platform, size, open,
                   user_lock, windows, handles, obs,
                   period_sets>>

\* spawn, line 71: load the scaling factor
SpawnLoadScale(t) ==
    /\ pc[t] = "spawn_load_scale"
    /\ loc' = [loc EXCEPT ![t].sf = scaling_factor]
    /\ pc' = [pc EXCEPT ![t] = "spawn_open"]
    /\ Frame(t, "spawn_load_scale", NoRet)
    /\ UNCHANGED <<platform, size, open, scaling_factor,
                   user_lock, windows, handles, obs,
                   period_sets>>

\* A spawn that opens the window without handing it the build closure
MutSpawnOpenParentedNoBuild(t) ==
    /\ pc[t] = "spawn_open"
    /\ windows' = Append(windows,
          [parent |-> raw_window_handle(loc[t].parent),
           size   |-> loc[t].sz,
           scale  |-> WindowScalePolicy(loc[t].sf),
           builds |-> 0,
           returned |-> TRUE,
           close_requested |-> FALSE])
    /\ loc' = [loc EXCEPT ![t].win = Len(windows) + 1]
    /\ pc' = [pc EXCEPT ![t] = "spawn_store"]
    /\ Frame(t, "spawn_open_parented", NoRet)
    /\ UNCHANGED <<platform, size, open, scaling_factor,
                   user_lock, handles, obs,
                   period_sets>>

\* spawn, lines 73-99: open_parented creates the native child window
SpawnOpenParented(t) ==
    /\ pc[t] = "spawn_open"
    /\ windows' = Append(windows,
          [parent |-> raw_window_handle(loc[t].parent),
           size   |-> loc[t].sz,
           scale  |-> WindowScalePolicy(loc[t].sf),
           builds |-> 0,
           returned |-> FALSE,
           close_requested |-> FALSE])
    /\ loc' = [loc EXCEPT ![t].win = Len(windows) + 1]
    /\ pc' = [pc EXCEPT ![t] = "spawn_build"]
    /\ Frame(t, "spawn_open_parented", NoRet)
    /\ UNCHANGED <<platform, size, open, scaling_factor,
                   user_lock, handles, obs,
                   period_sets>>

\* A closure that reaches the user state without waiting for the lock
MutSpawnBuildEnterNoWait(t) ==
    /\ pc[t] = "spawn_build"
    /\ user_lock' = t
    /\ pc' = [pc EXCEPT ![t] = "spawn_building"]
    /\ Frame(t, "spawn_build_enter", NoRet)
    /\ UNCHANGED <<platform, size, open, scaling_factor,
                   windows, handles, loc, obs,
                   period_sets>>

\* spawn, line 100: the closure takes the write lock on the user state
SpawnBuildEnter(t) ==
    /\ pc[t] = "spawn_build"
    /\ user_lock = NoThread
    /\ user_lock' = t
    /\ pc' = [pc EXCEPT ![t] = "spawn_building"]
    /\ Frame(t, "spawn_build_enter", NoRet)
    /\ UNCHANGED <<platform, size, open, scaling_factor,
                   windows, handles, loc, obs,
                   period_sets>>

\* A spawn whose closure also marks the editor open when build is done
MutSpawnBuildExitStoresOpen(t) ==
    /\ pc[t] = "spawn_building"
    /\ user_lock = t
    /\ user_lock' = NoThread
    /\ open' = TRUE
    /\ windows' = [windows EXCEPT ![loc[t].win].builds = @ + 1,
                                  ![loc[t].win].returned = TRUE]
    /\ pc' = [pc EXCEPT ![t] = "spawn_store"]
    /\ Frame(t, "spawn_build_exit", NoRet)
    /\ UNCHANGED <<platform, size, scaling_factor,
                   handles, loc, obs,
                   period_sets>>

\* spawn, lines 100-101: build runs, the lock guard is dropped, open_parented
\* returns the window handle
SpawnBuildExit(t) ==
    /\ pc[t] = "spawn_building"
    /\ user_lock = t
    /\ user_lock' = NoThread
    /\ windows' = [windows EXCEPT ![loc[t].win].builds = @ + 1,
                                  ![loc[t].win].returned = TRUE]
    /\ pc' = [pc EXCEPT ![t] = "spawn_store"]
    /\ Frame(t, "spawn_build_exit", NoRet)
    /\ UNCHANGED <<platform, size, open, scaling_factor,
                   handles, loc, obs,
                   period_sets>>

\* A spawn that returns the handle without storing the open flag
MutSpawnStoreOpenNoStore(t) ==
    /\ pc[t] = "spawn_store"
    /\ handles' = [handles EXCEPT ![loc[t].win] = "live"]
    /\ pc' = [pc EXCEPT ![t] = "idle"]
    /\ loc' = [loc EXCEPT ![t] = NoLoc]
    /\ Frame(t, "spawn_return", NoRet)
    /\ UNCHANGED <<platform, size, open, scaling_factor, user_lock,
                   windows, obs,
                   period_sets>>

\* A spawn that writes the size back, transposed, when the window is open
MutSpawnStoreOpenResize(t) ==
    /\ pc[t] = "spawn_store"
    /\ open' = TRUE
    /\ size' = <<size[2], size[1]>>
    /\ handles' = [handles EXCEPT ![loc[t].win] = "live"]
    /\ pc' = [pc EXCEPT ![t] = "idle"]
    /\ loc' = [loc EXCEPT ![t] = NoLoc]
    /\ Frame(t, "spawn_return", NoRet)
    /\ UNCHANGED <<platform, scaling_factor, user_lock, windows, obs,
                   period_sets>>

\* spawn, lines 103-107: store open, box the handle, return it
SpawnStoreOpen(t) ==
    /\ pc[t] = "spawn_store"
    /\ open' = TRUE
    /\ handles' = [handles EXCEPT ![loc[t].win] = "live"]
    /\ pc' = [pc EXCEPT ![t] = "idle"]
    /\ loc' = [loc EXCEPT ![t] = NoLoc]
    /\ Frame(t, "spawn_return", NoRet)
    /\ UNCHANGED <<platform, size, scaling_factor, user_lock,
                   windows, obs,
                   period_sets>>

\* ------------------------------------------------- BaseviewEditorHandle
\* A native window after WindowHandle::close(): the close request is issued
\* and the window, with the options it was opened with, is gone.
Closed(window) ==
    [parent |-> Empty, size |-> <<0, 0>>, scale |-> Empty,
     builds |-> window.builds, returned |-> window.returned,
     close_requested |-> TRUE]


\* A drop that does not clear the open flag
MutDropStoreClosedNoClear(t, w) ==
    /\ pc[t] = "idle"
    /\ handles[w] = "live"
    /\ handles' = [handles EXCEPT ![w] = "dropping"]
    /\ loc' = [loc EXCEPT ![t] = [NoLoc EXCEPT !.win = w]]
    /\ pc' = [pc EXCEPT ![t] = "drop_close"]
    /\ Frame(t, "drop_store", NoRet)
    /\ UNCHANGED <<platform, size, open, scaling_factor, user_lock,
                   windows, obs,
                   period_sets>>

\* A drop that issues window.close() first and clears the flag afterwards
MutDropStoreClosedCloseFirst(t, w) ==
    /\ pc[t] = "idle"
    /\ handles[w] = "live"
    /\ windows' = [windows EXCEPT ![w].close_requested = TRUE]
    /\ handles' = [handles EXCEPT ![w] = "dropping"]
    /\ loc' = [loc EXCEPT ![t] = [NoLoc EXCEPT !.win = w]]
    /\ pc' = [pc EXCEPT ![t] = "drop_close"]
    /\ Frame(t, "drop_store", NoRet)
    /\ UNCHANGED <<platform, size, open, scaling_factor, user_lock, obs,
                   period_sets>>

\* drop, line 202: the handle's disposal starts by clearing the open flag
DropStoreClosed(t, w) ==
    /\ pc[t] = "idle"
    /\ handles[w] = "live"
    /\ open' = FALSE
    /\ handles' = [handles EXCEPT ![w] = "dropping"]
    /\ loc' = [loc EXCEPT ![t] = [NoLoc EXCEPT !.win = w]]
    /\ pc' = [pc EXCEPT ![t] = "drop_close"]
    /\ Frame(t, "drop_store", NoRet)
    /\ UNCHANGED <<platform, size, scaling_factor, user_lock,
                   windows, obs,
                   period_sets>>

\* A drop that puts the scaling factor back to its initial value
MutDropWindowCloseResetsScale(t) ==
    /\ pc[t] = "drop_close"
    /\ windows' = [windows EXCEPT ![loc[t].win] = Closed(@)]
    /\ handles' = [handles EXCEPT ![loc[t].win] = "dropped"]
    /\ scaling_factor' = InitialScalingFactor(platform)
    /\ loc' = [loc EXCEPT ![t] = NoLoc]
    /\ pc' = [pc EXCEPT ![t] = "idle"]
    /\ Frame(t, "drop_close", NoRet)
    /\ UNCHANGED <<platform, size, open, user_lock, obs,
                   period_sets>>

\* drop, line 204: window.close(), then the handle's fields are released
DropWindowClose(t) ==
    /\ pc[t] = "drop_close"
    /\ windows' = [windows EXCEPT ![loc[t].win] = Closed(@)]
    /\ handles' = [handles EXCEPT ![loc[t].win] = "dropped"]
    /\ loc' = [loc EXCEPT ![t] = NoLoc]
    /\ pc' = [pc EXCEPT ![t] = "idle"]
    /\ Frame(t, "drop_close", NoRet)
    /\ UNCHANGED <<platform, size, open, scaling_factor,
                   user_lock, obs,
                   period_sets>>

\* ------------------------------------------------------- query surface
\* Editor::size, lines 162-164: a read; the value returned is Size
EditorSize(t) ==
    /\ pc[t] = "idle"
    /\ UNCHANGED vars

\* A set_scale_factor without the is_open() check
MutSetScaleFactorCheckNoCheck(t, factor) ==
    /\ pc[t] = "idle"
    /\ Frame(t, "set_scale_factor_check", NoRet)
    /\ loc' = [loc EXCEPT ![t] = [NoLoc EXCEPT !.factor = factor]]
    /\ pc' = [pc EXCEPT ![t] = "ssf_store"]
    /\ UNCHANGED <<platform, size, open, scaling_factor,
                   user_lock, windows, handles, obs,
                   period_sets>>

\* set_scale_factor, lines 166-171: the is_open() check and early return
SetScaleFactorCheck(t, factor) ==
    /\ pc[t] = "idle"
    /\ IF IsOpen
       THEN /\ Frame(t, "set_scale_factor_check", <<FALSE>>)
            /\ UNCHANGED <<pc, loc>>
       ELSE /\ Frame(t, "set_scale_factor_check", NoRet)
            /\ loc' = [loc EXCEPT ![t] = [NoLoc EXCEPT !.factor = factor]]
            /\ pc' = [pc EXCEPT ![t] = "ssf_store"]
    /\ UNCHANGED <<platform, size, open, scaling_factor,
                   user_lock, windows, handles, obs,
                   period_sets>>

\* A set_scale_factor that returns true without storing the factor
MutSetScaleFactorStoreNoStore(t) ==
    /\ pc[t] = "ssf_store"
    /\ Frame(t, "set_scale_factor_store", <<TRUE>>)
    /\ loc' = [loc EXCEPT ![t] = NoLoc]
    /\ pc' = [pc EXCEPT ![t] = "idle"]
    /\ UNCHANGED <<platform, size, open, scaling_factor, user_lock, windows,
                   handles, obs,
                   period_sets>>

\* A set_scale_factor that stores only the first factor of a closed period
MutSetScaleFactorStoreOncePerPeriod(t) ==
    /\ pc[t] = "ssf_store"
    /\ scaling_factor' = IF period_sets = 0 THEN Some(loc[t].factor)
                         ELSE scaling_factor
    /\ period_sets' = IF ~ClosedPeriod THEN 0
                      ELSE IF scaling_factor' = scaling_factor THEN period_sets
                      ELSE IF period_sets < 2 THEN period_sets + 1
                      ELSE period_sets
    /\ Frame(t, "set_scale_factor_store", <<TRUE>>)
    /\ loc' = [loc EXCEPT ![t] = NoLoc]
    /\ pc' = [pc EXCEPT ![t] = "idle"]
    /\ UNCHANGED <<platform, size, open, user_lock, windows,
                   handles, obs>>

\* set_scale_factor, lines 173-174: store Some(factor), return true
SetScaleFactorStore(t) ==
    /\ pc[t] = "ssf_store"
    /\ scaling_factor' = Some(loc[t].factor)
    /\ period_sets' = IF ~ClosedPeriod THEN 0
                      ELSE IF scaling_factor' = scaling_factor THEN period_sets
                      ELSE IF period_sets < 2 THEN period_sets + 1
                      ELSE period_sets
    /\ Frame(t, "set_scale_factor_store", <<TRUE>>)
    /\ loc' = [loc EXCEPT ![t] = NoLoc]
    /\ pc' = [pc EXCEPT ![t] = "idle"]
    /\ UNCHANGED <<platform, size, open, user_lock, windows,
                   handles, obs>>

\* param_value_changed, lines 177-181: empty body
ParamValueChanged(t) ==
    /\ pc[t] = "idle"
    /\ UNCHANGED vars

\* param_modulation_changed, line 183: empty body
ParamModulationChanged(t) ==
    /\ pc[t] = "idle"
    /\ UNCHANGED vars

\* param_values_changed, lines 185-187: empty body
ParamValuesChanged(t) ==
    /\ pc[t] = "idle"
    /\ UNCHANGED vars

\* ---------------------------------------------------------- persistence
\* What serde writes for a BaseviewState: open is #[serde(skip)]
Serialize(state) == [size |-> state.size]

\* What serde builds from it: the skipped field takes AtomicBool::default()
Deserialize(data) == [size |-> data.size, open |-> FALSE]

\* A round trip in which the open flag is not skipped
MutReloadKeepsOpen(state) == [size |-> state.size, open |-> state.open]

\* A BaseviewState written by serde and read back
Reload(state) == Deserialize(Serialize(state))

\* A set that copies the whole loaded state, its open flag included
MutPersistentSetCopiesOpen(t, new_value) ==
    /\ pc[t] = "idle"
    /\ size' = new_value.size
    /\ open' = new_value.open
    /\ Frame(t, "persistent_set", <<new_value.size>>)
    /\ UNCHANGED <<platform, scaling_factor, user_lock,
                   windows, handles, pc, loc, obs,
                   period_sets>>

\* PersistentField::set, lines 71-73: copy the loaded size
PersistentSet(t, new_value) ==
    /\ pc[t] = "idle"
    /\ size' = new_value.size
    /\ Frame(t, "persistent_set", <<new_value.size>>)
    /\ UNCHANGED <<platform, open, scaling_factor, user_lock,
                   windows, handles, pc, loc, obs,
                   period_sets>>

\* -------------------------------------------------------------- observer
\* A thread polling BaseviewState::is_open (lines 100-102).  obs is w after a
\* true read while window w was the one opened last, -w after the false read
\* that follows it, and 0 before any true read.
ObserveIsOpen ==
    /\ IF IsOpen
       THEN obs' = Len(windows)
       ELSE /\ obs > 0
            /\ obs' = -obs
    /\ UNCHANGED <<platform, size, open, scaling_factor,
                   user_lock, windows, handles, pc, loc, last,
                   period_sets>>

\* ================================================================ claims
\* A step of the host operation `label`: every such step records its label,
\* and the polling thread's reads are the only steps that change obs.
HostStep(label) == last'.op = label /\ obs' = obs

LiveHandles == {w \in 1..MaxWindows : handles[w] = "live"}

\* the window the open flag stands for: the one opened last
OpenWindow == Len(windows)

\* C1: under a host that keeps at most one handle outstanding, the open flag
\* is true if and only if exactly one handle returned by spawn is live
\* (created by spawn and its drop not yet begun).
C1_OpenIffOneLiveHandle == IsOpen <=> Cardinality(LiveHandles) = 1

C1_Witness ==
    /\ IsOpen
    /\ LiveHandles = {2}
    /\ handles[1] = "dropped"

\* C2: a set_scale_factor call whose is_open() check reads true returns false
\* and changes neither the stored scaling factor, nor the size, nor the open
\* flag.
C2_RejectedWhileOpen ==
    [][(HostStep("set_scale_factor_check") /\ IsOpen)
         => /\ last'.ret = <<FALSE>>
            /\ UNCHANGED <<scaling_factor, size, open, pc>>]_vars

C2_Witness ==
    /\ last.op = "set_scale_factor_check"
    /\ last.ret = <<FALSE>>
    /\ IsOpen
    /\ scaling_factor = InitialScalingFactor(platform)

\* C3: a set_scale_factor(factor) call whose is_open() check reads false goes
\* on to store: it returns true and the stored scaling factor is then
\* Some(factor).
C3_AcceptedWhileClosed ==
    [][/\ (HostStep("set_scale_factor_check") /\ ~IsOpen)
            => \E t \in Threads :
                  /\ pc[t] = "idle"
                  /\ pc'[t] = "ssf_store"
                  /\ loc'[t].factor \in Factors
       /\ \A t \in Threads :
            (pc[t] = "ssf_store" /\ pc'[t] # "ssf_store")
               => /\ scaling_factor' = Some(loc[t].factor)
                  /\ last'.ret = <<TRUE>>
                  /\ pc'[t] = "idle"]_vars

\* closed again after the first window's handle was dropped, factor 2 stored
C3_Witness ==
    /\ last.op = "set_scale_factor_store"
    /\ last.ret = <<TRUE>>
    /\ scaling_factor = Some(2)
    /\ ~IsOpen
    /\ Len(windows) = 1
    /\ handles[1] = "dropped"

\* C4: the stored scaling factor never changes during an interval in which
\* the open flag is true, whatever the interleaving of set_scale_factor,
\* spawn and handle disposal.
C4_ScaleFixedWhileOpen ==
    [][(open /\ open') => scaling_factor' = scaling_factor]_vars

\* C5 as stated: the size never changes while the open flag is true, over
\* every sequence of operations, persistence loads included.
C5_SizeFixedWhileOpen ==
    [][(open /\ open') => size' = size]_vars

\* C5 as amended: the size is changed only by a persistence load
\* (PersistentField::set), which replaces it by the loaded size whether or
\* not the open flag is true; spawn, handle disposal, set_scale_factor and
\* the parameter notifications never change it.
C5_SizeChangedOnlyByLoad ==
    [][size' # size
         => /\ HostStep("persistent_set")
            /\ size' \in Sizes
            /\ UNCHANGED <<open, scaling_factor, windows, handles, pc>>]_vars

\* a load while the window is open left a size other than the one the window
\* was opened with
C5_Witness ==
    /\ IsOpen
    /\ last.op = "persistent_set"
    /\ handles[OpenWindow] = "live"
    /\ size # windows[OpenWindow].size

\* C6: is_open() is false before any spawn; it is true when a spawn has
\* returned, whatever the parent variant; it is false when the drop of the
\* returned handle has finished; and spawns after that drop behave the same.
C6_OpenCloseCycle ==
    /\ []((Len(windows) = 0) => ~IsOpen)
    /\ []((\A w \in 1..MaxWindows : handles[w] \in {"none", "dropped"})
            => ~IsOpen)
    /\ [][/\ HostStep("spawn_return")
               => /\ IsOpen'
                  /\ windows'[OpenWindow].parent.variant
                        \in {"Xcb", "AppKit", "Win32"}
          /\ HostStep("drop_close") => ~IsOpen']_vars

\* the second open period, after the first handle was dropped
C6_Witness ==
    /\ IsOpen
    /\ Len(windows) = 2
    /\ windows[1].close_requested
    /\ handles[2] = "live"
    /\ last.op = "spawn_return"

\* C7: the close request of a window is never issued while the open flag is
\* still true for that window: drop clears the flag first.
C7_ClearedBeforeClose ==
    \A w \in 1..Len(windows) :
        windows[w].close_requested => ~(IsOpen /\ OpenWindow = w)

C7_Witness ==
    /\ last.op = "drop_close"
    /\ windows[OpenWindow].close_requested
    /\ handles[OpenWindow] = "dropped"
    /\ ~IsOpen

\* C8 as stated: a thread that reads is_open() == false after having read
\* true for a window finds, at the moment of the false read, the close
\* request of that window already issued.
C8_FalseReadMeansCloseIssued ==
    [][(obs > 0 /\ obs' < 0) => windows[obs].close_requested]_vars

\* C8 as amended: at the moment of such a false read the disposal of that
\* window's handle has begun (drop has cleared the flag); the close request
\* is issued only after the clear, so it may not have been issued yet.
C8_FalseReadMeansDropBegun ==
    [][(obs > 0 /\ obs' < 0)
          => handles[obs] \in {"dropping", "dropped"}]_vars

\* the false read happened between drop's store and its window.close()
C8_Witness ==
    /\ obs < 0
    /\ handles[-obs] = "dropping"
    /\ ~windows[-obs].close_requested

\* C9: whenever is_open() reads true, no window is still being created:
\* open_parented has returned for every window and the build closure of the
\* open window has finished.
C9_OpenMeansConstructed ==
    IsOpen =>
        /\ OpenWindow > 0
        /\ \A w \in 1..Len(windows) : windows[w].returned
        /\ windows[OpenWindow].builds > 0
        /\ \A t \in Threads : pc[t] \notin
              {"spawn_load_scale", "spawn_open", "spawn_build",
               "spawn_building", "spawn_store"}

\* the polling thread has read true for the second window
C9_Witness ==
    /\ obs = 2
    /\ IsOpen
    /\ windows[2].returned

\* C10: each spawn invokes the build closure exactly once, and the
\* invocation is over before the open flag is set and before spawn returns
\* the handle.
C10_BuildOncePerSpawn ==
    \A w \in 1..Len(windows) :
        /\ windows[w].builds <= 1
        /\ (handles[w] # "none") => windows[w].builds = 1
        /\ (IsOpen /\ OpenWindow = w) => windows[w].builds = 1
        /\ (\E t \in Threads : pc[t] = "spawn_store" /\ loc[t].win = w)
              => (windows[w].builds = 1 /\ user_lock = NoThread)

C10_Witness ==
    /\ Len(windows) = 2
    /\ windows[1].builds = 1
    /\ windows[2].builds = 1
    /\ handles[2] = "live"


\* the BaseviewState the editor and the persistence layer share
LiveState == [size |-> size, open |-> open]

\* C11: the scale policy of a window is decided by the snapshot of the
\* stored scaling factor that spawn takes before it creates the window: the
\* snapshot is the factor stored at that moment, and the window gets a fixed
\* factor equal to it, or system-scale detection when none is stored.
C11_ScaleFromSnapshot ==
    [][/\ HostStep("spawn_load_scale")
            => \E t \in Threads :
                  /\ pc[t] = "spawn_load_scale"
                  /\ pc'[t] = "spawn_open"
                  /\ loc'[t].sf = scaling_factor
       /\ HostStep("spawn_open_parented")
            => \E t \in Threads :
                  /\ pc[t] = "spawn_open"
                  /\ windows'[Len(windows')].scale =
                        IF loc[t].sf = None
                        THEN [policy |-> "SystemScaleFactor"]
                        ELSE [policy |-> "ScaleFactor",
                              factor |-> Unwrap(loc[t].sf)]]_vars

\* the second window, opened with the factor 2 set after the first was closed
C11_Witness ==
    /\ platform = "other"
    /\ last.op = "spawn_return"
    /\ Len(windows) = 2
    /\ handles[1] = "dropped"
    /\ scaling_factor = Some(2)
    /\ windows[2].scale = [policy |-> "ScaleFactor", factor |-> 2]

\* C12: a persistence load copies only the loaded size into the live state;
\* the open flag and the stored scaling factor are unchanged, whether a
\* window is open or not.
C12_LoadCopiesOnlySize ==
    [][HostStep("persistent_set")
         => /\ size' = last'.ret[1]
            /\ size' \in Sizes
            /\ UNCHANGED <<open, scaling_factor, windows, handles, pc,
                           user_lock>>]_vars

\* a load while a window is open and a host-set factor is stored
C12_Witness ==
    /\ last.op = "persistent_set"
    /\ size = last.ret[1]
    /\ IsOpen
    /\ handles[OpenWindow] = "live"
    /\ scaling_factor = Some(2)

\* C13: serializing the live state and reloading it gives the state
\* from_size builds for the same size: the size is kept and open is false,
\* whether the serialized state was open or closed.
C13_RoundTrip ==
    /\ Reload(LiveState) = from_size(size[1], size[2])
    /\ Reload(LiveState).size = Size
    /\ ~Reload(LiveState).open
    /\ DOMAIN Serialize(LiveState) = {"size"}

\* an open state whose size came from a load
C13_Witness ==
    /\ IsOpen
    /\ LiveState.open
    /\ last.op = "persistent_set"
    /\ Reload(LiveState) = [size |-> size, open |-> FALSE]

\* the variant of the target handle for each variant of the host's handle
TargetVariant(variant) ==
    CASE variant = "X11Window" -> "Xcb"
      [] variant = "AppKitNsView" -> "AppKit"
      [] variant = "Win32Hwnd" -> "Win32"

\* the field of a target handle that holds the platform reference
PayloadField(handle) ==
    CASE handle.variant = "Xcb" -> "window"
      [] handle.variant = "AppKit" -> "ns_view"
      [] handle.variant = "Win32" -> "hwnd"

\* handle is parent's variant with parent's reference in the payload field
\* and every other field empty
TranslationOf(parent, handle) ==
    /\ handle.variant = TargetVariant(parent.variant)
    /\ handle[PayloadField(handle)] = parent.ref
    /\ \A f \in DOMAIN handle \ {"variant", PayloadField(handle)} :
          handle[f] = Empty

DifferOnlyIn(h1, h2, field) ==
    /\ DOMAIN h1 = DOMAIN h2
    /\ h1[field] # h2[field]
    /\ \A f \in DOMAIN h1 \ {field} : h1[f] = h2[f]

\* the references another spawn could have passed: one more than Refs holds
OtherParents ==
    [variant : {"X11Window", "AppKitNsView", "Win32Hwnd"},
     ref : 1..(MaxRef + 1)]

SpawnPast(t, labels) == pc[t] \in labels

\* C14: within one closed period (the editor stays closed, no spawn in
\* between) the stored scaling factor changes at most once; a second
\* set_scale_factor call in the same period does not change it again.
C14_ChangedAtMostOncePerPeriod ==
    ClosedPeriod => period_sets <= 1

\* C14, as the code has it: every set_scale_factor call that goes on to
\* store in a closed period leaves its own factor stored, however many
\* changes the period has already seen; a factor different from the stored
\* one changes it again.
C14_EveryAcceptedCallStores ==
    /\ [](period_sets # 0 => ClosedPeriod)
    /\ [][\A t \in Threads :
            (pc[t] = "ssf_store" /\ pc'[t] = "idle" /\ ClosedPeriod)
               => /\ scaling_factor' = Some(loc[t].factor)
                  /\ last'.ret = <<TRUE>>
                  /\ (period_sets >= 1
                        /\ Some(loc[t].factor) # scaling_factor)
                       => (scaling_factor' # scaling_factor
                             /\ period_sets' >= 2)]_vars

\* two changes of the factor in one closed period
C14_Witness ==
    /\ ClosedPeriod
    /\ period_sets = 2
    /\ last.op = "set_scale_factor_store"

\* C15: the handle a spawn passes to open_parented keeps the variant of the
\* host's parent handle and holds its reference verbatim, every other field
\* empty; a parent of the same variant with another reference translates to
\* a handle that differs only in that field.
C15_TranslationInjective ==
    \A t \in Threads :
        SpawnPast(t, {"spawn_load_scale", "spawn_open", "spawn_build",
                      "spawn_building", "spawn_store"})
        => /\ TranslationOf(loc[t].parent, raw_window_handle(loc[t].parent))
           /\ SpawnPast(t, {"spawn_build", "spawn_building", "spawn_store"})
                => TranslationOf(loc[t].parent, windows[loc[t].win].parent)
           /\ \A q \in OtherParents :
                (q.variant = loc[t].parent.variant
                    /\ q.ref # loc[t].parent.ref)
                => DifferOnlyIn(raw_window_handle(loc[t].parent),
                                raw_window_handle(q),
                                PayloadField(raw_window_handle(q)))

\* a window created for an X11 parent holds the X11 window id
C15_Witness ==
    \E t \in Threads :
        /\ pc[t] = "spawn_store"
        /\ loc[t].parent = [variant |-> "X11Window", ref |-> 1]
        /\ windows[loc[t].win].parent =
              [variant |-> "Xcb", window |-> 1, visual_id |-> Empty]
        /\ raw_window_handle([variant |-> "X11Window", ref |-> 2]).window = 2

\* C16: the value of the open flag changes only in spawn's store, from false
\* to true, and in drop's store, from true to false; every window's handle
\* goes through exactly one of each, and no other operation changes the flag.
C16_OpenWrittenTwice ==
    [][/\ open' # open
            => \/ HostStep("spawn_return") /\ open'
               \/ HostStep("drop_store") /\ ~open'
       /\ HostStep("spawn_return") => (~open /\ open')
       /\ HostStep("drop_store") => (open /\ ~open')
       /\ \A w \in 1..MaxWindows :
            handles'[w] # handles[w]
               => \/ /\ handles[w] = "none" /\ handles'[w] = "live"
                     /\ HostStep("spawn_return")
                  \/ /\ handles[w] = "live" /\ handles'[w] = "dropping"
                     /\ HostStep("drop_store")
                  \/ /\ handles[w] = "dropping" /\ handles'[w] = "dropped"
                     /\ HostStep("drop_close")]_vars

\* two whole lifecycles, with loads and scale changes in between
C16_Witness ==
    /\ Len(windows) = 2
    /\ handles[1] = "dropped"
    /\ handles[2] = "dropped"
    /\ ~IsOpen
    /\ scaling_factor = Some(2)
    /\ last.op = "persistent_set"

Building == {t \in Threads : pc[t] = "spawn_building"}

\* C17: a build closure runs only while its thread holds the write lock on
\* the user state, so nobody else holds the lock during a build and two
\* build closures never run at the same time, even when the host calls spawn
\* from two threads at once.
C17_BuildHoldsWriteLock ==
    /\ \A t \in Building : user_lock = t
    /\ Cardinality(Building) <= 1
    /\ user_lock # NoThread => user_lock \in Building

\* one spawn is building while the other waits for the lock
C17_Witness ==
    /\ pc["t1"] = "spawn_building"
    /\ user_lock = "t1"
    /\ pc["t2"] = "spawn_build"
    /\ ~ENABLED SpawnBuildEnter("t2")

LifecycleLabels ==
    {"spawn_call", "spawn_load_scale", "spawn_open_parented",
     "spawn_build_enter", "spawn_build_exit", "spawn_return",
     "drop_store", "drop_close"}

\* C18: spawn, handle disposal, size() and the three parameter notifications
\* leave the size and the stored scaling factor unchanged: the size changes
\* only in a persistence load and the factor only in set_scale_factor's
\* store, so both survive any number of open/close cycles.  size() and the
\* notifications change no variable at all, so they fall under the last two
\* conjuncts, which speak of every step.
C18_LifecycleKeepsSizeAndScale ==
    [][/\ (\E l \in LifecycleLabels : HostStep(l))
            => UNCHANGED <<size, scaling_factor>>
       /\ Size' # Size => HostStep("persistent_set")
       /\ scaling_factor' # scaling_factor
            => HostStep("set_scale_factor_store")]_vars

\* the factor the second window was opened with is still the stored one
\* while that window's handle is being dropped
C18_Witness ==
    /\ platform = "macos"
    /\ Len(windows) = 2
    /\ handles[1] = "dropped"
    /\ handles[2] = "dropping"
    /\ last.op = "drop_store"
    /\ windows[2].scale = [policy |-> "ScaleFactor", factor |-> 2]
    /\ scaling_factor = Some(2)

PastScaleLoad ==
    {t \in Threads : pc[t] \in {"spawn_open", "spawn_build",
                                "spawn_building", "spawn_store"}}

Standing == {w \in 1..Len(windows) : ~windows[w].close_requested}

\* C19: a stored scaling factor never goes back to unset; where the adapter
\* starts with 1.0 every spawn snapshots a factor and opens its window with
\* a fixed scale, and where it starts unset a spawn chooses system-scale
\* detection only if its snapshot is taken while nothing has been stored.
C19_FactorNeverUnset ==
    /\ [][scaling_factor # None => scaling_factor' # None]_vars
    /\ [](platform # "macos"
            => /\ scaling_factor # None
               /\ \A t \in PastScaleLoad : loc[t].sf # None
               /\ \A w \in Standing :
                     windows[w].scale.policy = "ScaleFactor")
    /\ [][(HostStep("spawn_load_scale") /\ scaling_factor # None)
            => \E t \in Threads :
                  /\ pc[t] = "spawn_load_scale"
                  /\ loc'[t].sf # None]_vars
    /\ [][(HostStep("spawn_open_parented")
             /\ windows'[Len(windows')].scale.policy = "SystemScaleFactor")
            => \E t \in Threads : pc[t] = "spawn_open" /\ loc[t].sf = None]_vars

\* on the platform that starts unset: a second window with a fixed scale
\* after the host has set a factor
C19_Witness ==
    /\ platform = "macos"
    /\ Len(windows) = 2
    /\ handles[1] = "dropped"
    /\ Standing = {2}
    /\ windows[2].scale = [policy |-> "ScaleFactor", factor |-> 1]
    /\ scaling_factor = Some(1)

\* C20: whenever the open flag is true, the stored scaling factor is the
\* snapshot the open window was created with, for every interleaving of
\* set_scale_factor with a spawn in progress.
C20_StoredEqualsSnapshot ==
    (IsOpen /\ OpenWindow \in Standing)
        => windows[OpenWindow].scale = WindowScalePolicy(scaling_factor)

Next ==
    \/ \E t \in Threads, parent \in ParentWindowHandle : SpawnCall(t, parent)
    \/ \E t \in Threads : SpawnLoadScale(t)
    \/ \E t \in Threads : SpawnOpenParented(t)
    \/ \E t \in Threads : SpawnBuildEnter(t)
    \/ \E t \in Threads : SpawnBuildExit(t)
    \/ \E t \in Threads : SpawnStoreOpen(t)
    \/ \E t \in Threads, w \in 1..MaxWindows : DropStoreClosed(t, w)
    \/ \E t \in Threads : DropWindowClose(t)
    \/ \E t \in Threads : EditorSize(t)
    \/ \E t \in Threads, factor \in Factors : SetScaleFactorCheck(t, factor)
    \/ \E t \in Threads : SetScaleFactorStore(t)
    \/ \E t \in Threads : ParamValueChanged(t)
    \/ \E t \in Threads : ParamModulationChanged(t)
    \/ \E t \in Threads : ParamValuesChanged(t)
    \/ \E t \in Threads, s \in Sizes :
          PersistentSet(t, Deserialize(Serialize(from_size(s[1], s[2]))))
    \/ ObserveIsOpen

Spec == Init /\ [][Next]_vars

\* The window lifecycle under a host that calls spawn without waiting for
\* the previous handle to be dropped: spawn and drop, the steps that reach
\* the user state's lock or decide which builds can overlap.
NextConcurrent ==
    \/ \E t \in Threads, parent \in ParentWindowHandle :
          SpawnCallConcurrent(t, parent)
    \/ \E t \in Threads : SpawnLoadScale(t)
    \/ \E t \in Threads : SpawnOpenParented(t)
    \/ \E t \in Threads : SpawnBuildEnter(t)
    \/ \E t \in Threads : SpawnBuildExit(t)
    \/ \E t \in Threads : SpawnStoreOpen(t)
    \/ \E t \in Threads, w \in 1..MaxWindows : DropStoreClosed(t, w)
    \/ \E t \in Threads : DropWindowClose(t)

SpecConcurrent == Init /\ [][NextConcurrent]_vars
====
